---- MODULE Spec2Model ----
(***************************************************************************)
(* f1_light_sync: the flag manager of src/main.rs and the packet loop that *)
(* drives it.  One action per packet kind the loop of main() matches; the  *)
(* methods of FlagManager are operators from a manager value to the        *)
(* manager value after the call.                                           *)
(***************************************************************************)
EXTENDS Integers, Sequences, FiniteSets, TLC

(* ---------------------------------------------------------------- bounds *)
\* the last reading of the monotonic clock (Instant::now(), in seconds)
MaxTime == 3
\* car slots of the session (the library's MAX_CARS_IN_SESSION, scaled down)
MaxCars == 2

(* ------------------------------------------------------------- constants *)
\* const PENALTY_SHOW_TIME: Duration = Duration::from_secs(2)
PENALTY_SHOW_TIME == 2

(* ------------------------------------------------------------ data model *)
\* Option<T>: None is the empty sequence, Some(x) the one-element sequence
None == << >>
Some(x) == << x >>
is_some(o) == o # None
is_none(o) == o = None

GlobalFlag == {"Vsc", "Sc", "Red"}
LocalFlag == {"Green", "Yellow", "Blue"}
VehicleFiaFlags == {"InvalidUnknown", "None", "Green", "Blue", "Yellow", "Red"}
\* the race number a participants packet carries in every slot (u8, one kept)
RaceNumbers == {44}
CarSlots == 0 .. (MaxCars - 1)
\* safety_car_type / event_type (u8): the documented 0..3 and one value past it
Codes == {0, 1, 2, 3, 4}
\* the clock readings at which packets are handled: the start, and every
\* second from the penalty show time on, so that the gaps between two
\* readings are 0, shorter than, equal to and longer than the show time
Instants == {0} \cup (PENALTY_SHOW_TIME .. MaxTime)

\* enum Flag { Global(GlobalFlag), Local(LocalFlag), Penalty(usize), Finish }
FlagGlobal(g) == [kind |-> "Global", flag |-> g, index |-> 0]
FlagLocal(l) == [kind |-> "Local", flag |-> l, index |-> 0]
FlagPenalty(i) == [kind |-> "Penalty", flag |-> "", index |-> i]
FlagFinish == [kind |-> "Finish", flag |-> "", index |-> 0]

\* Flag::to_enum_str
to_enum_str(flag) ==
    CASE flag.kind = "Global" ->
            (CASE flag.flag = "Vsc" -> "5"
               [] flag.flag = "Sc" -> "4"
               [] flag.flag = "Red" -> "12")
      [] flag.kind = "Local" ->
            (CASE flag.flag = "Green" -> "1"
               [] flag.flag = "Yellow" -> "2"
               [] flag.flag = "Blue" -> "8")
      [] flag.kind = "Penalty" -> "11," \o ToString(flag.index)
      [] flag.kind = "Finish" -> "16"

\* impl From<LocalFlag> for Flag, mapped over an Option<LocalFlag>
map_from_local(o) == IF is_some(o) THEN Some(FlagLocal(o[1])) ELSE None

\* Instant::duration_since(earlier): saturates to zero when earlier is later
duration_since(self, earlier) == IF self >= earlier THEN self - earlier ELSE 0

\* show_based_on_local with the Yellow | Blue arm guarded by !finished
show_based_on_local_finish_masks(flag, penalty, finished) ==
    CASE flag = None /\ ~penalty /\ ~finished -> Some(None)
      [] flag = Some("Green") /\ ~finished -> Some(flag)
      [] (flag = Some("Yellow") \/ flag = Some("Blue")) /\ ~finished -> Some(flag)
      [] OTHER -> None

\* show_based_on_local with the Yellow | Blue arm guarded by !penalty
show_based_on_local_penalty_masks(flag, penalty, finished) ==
    CASE flag = None /\ ~penalty /\ ~finished -> Some(None)
      [] flag = Some("Green") /\ ~finished -> Some(flag)
      [] (flag = Some("Yellow") \/ flag = Some("Blue")) /\ ~penalty -> Some(flag)
      [] OTHER -> None

\* show_based_on_local with the None arm not guarded by !finished
show_based_on_local_finish_ignored(flag, penalty, finished) ==
    CASE flag = None /\ ~penalty -> Some(None)
      [] flag = Some("Green") /\ ~finished -> Some(flag)
      [] flag = Some("Yellow") \/ flag = Some("Blue") -> Some(flag)
      [] OTHER -> None

\* show_based_on_local with the Green arm not guarded by !finished
show_based_on_local_green_unguarded(flag, penalty, finished) ==
    CASE flag = None /\ ~penalty /\ ~finished -> Some(None)
      [] flag = Some("Green") -> Some(flag)
      [] flag = Some("Yellow") \/ flag = Some("Blue") -> Some(flag)
      [] OTHER -> None

\* show_based_on_local: None = nothing to show, Some(o) = show o
show_based_on_local(flag, penalty, finished) ==
    CASE flag = None /\ ~penalty /\ ~finished -> Some(None)
      [] flag = Some("Green") /\ ~finished -> Some(flag)
      [] flag = Some("Yellow") \/ flag = Some("Blue") -> Some(flag)
      [] OTHER -> None

(* ------------------------------------------------------------------ state *)
VARIABLES
    global_flag,            \* Option<GlobalFlag>
    local_flag,             \* Option<LocalFlag>
    race_finished,          \* bool
    showing_penalty_since,  \* Option<Instant>
    driver_numbers,         \* [u8; MAX_CARS_IN_SESSION]
    now,                    \* the clock when the last packet was handled
    panicked,               \* the loop hit unreachable!() or expect()
    event,                  \* the kind of the last packet
    call,                   \* the FlagManager call the last packet made
    after_reset,            \* the packet before the last one called reset()
    pre,                    \* the manager's flag fields before that call
    sent,                   \* strings handed to output_socket.send by it
    log,                    \* lines it printed
    routed,                 \* Option<(u8, u8)>: the (safety_car_type, event_type)
                            \* it matched on, when the run keeps them
    displayed               \* Option<String>: the last string handed to send

vars == << global_flag, local_flag, race_finished, showing_penalty_since,
           driver_numbers, now, panicked, event, call, after_reset, pre, sent,
           log, routed, displayed >>

\* the manager as a value: its fields, and what the call sent and printed
Manager ==
    [global_flag |-> global_flag, local_flag |-> local_flag,
     race_finished |-> race_finished,
     showing_penalty_since |-> showing_penalty_since,
     driver_numbers |-> driver_numbers, sent |-> << >>, log |-> << >>]

Fields(m) ==
    [global_flag |-> m.global_flag, local_flag |-> m.local_flag,
     race_finished |-> m.race_finished,
     showing_penalty_since |-> m.showing_penalty_since]

DefaultNumbers == [i \in CarSlots |-> 0]

\* FlagManager::new
new ==
    [global_flag |-> None, local_flag |-> None, race_finished |-> FALSE,
     showing_penalty_since |-> None, driver_numbers |-> DefaultNumbers,
     sent |-> << >>, log |-> << >>]

(* ------------------------------------------------------ FlagManager calls *)
\* reset that leaves driver_numbers as they were
reset_keeps_roster(self) ==
    [self EXCEPT !.global_flag = None, !.local_flag = None,
                 !.race_finished = FALSE, !.showing_penalty_since = None]

\* reset that leaves local_flag as it was
reset_keeps_local(self) ==
    [self EXCEPT !.global_flag = None,
                 !.race_finished = FALSE, !.showing_penalty_since = None,
                 !.driver_numbers = DefaultNumbers]

\* FlagManager::reset
reset(self) ==
    [self EXCEPT !.global_flag = None, !.local_flag = None,
                 !.race_finished = FALSE, !.showing_penalty_since = None,
                 !.driver_numbers = DefaultNumbers]

\* FlagManager::show; ok is the result of output_socket.send
show(self, flag, ok) ==
    LET string_input == IF is_some(flag) THEN to_enum_str(flag[1]) ELSE ""
    IN  [self EXCEPT !.sent = Append(@, string_input),
                     !.log = IF ok THEN @
                             ELSE Append(@, "Failed to send show command")]

\* finish that sets race_finished only once the send has succeeded
finish_aborts_on_send_error(self, ok) ==
    IF is_none(self.global_flag)
    THEN LET s1 == show(self, Some(FlagFinish), ok)
         IN  IF ok THEN [s1 EXCEPT !.race_finished = TRUE] ELSE s1
    ELSE [self EXCEPT !.race_finished = TRUE]

\* finish that shows whether or not a global flag is active
finish_always_shows(self, ok) ==
    show([self EXCEPT !.race_finished = TRUE], Some(FlagFinish), ok)

\* FlagManager::finish
finish(self, ok) ==
    LET s1 == [self EXCEPT !.race_finished = TRUE]
    IN  IF is_none(s1.global_flag) THEN show(s1, Some(FlagFinish), ok) ELSE s1

\* FlagManager::set_penalty, called at instant t
set_penalty(self, index, t, ok) ==
    LET s1 == [self EXCEPT !.showing_penalty_since = Some(t)]
    IN  IF is_none(s1.global_flag)
        THEN show(s1, Some(FlagPenalty(index)), ok)
        ELSE s1

\* check_penalty measuring from the recorded instant to now
check_penalty_elapsed(self, t) ==
    IF /\ is_some(self.showing_penalty_since)
       /\ duration_since(t, self.showing_penalty_since[1]) > PENALTY_SHOW_TIME
    THEN [self EXCEPT !.showing_penalty_since = None]
    ELSE self

\* FlagManager::check_penalty, called at instant t
check_penalty(self, t) ==
    IF /\ is_some(self.showing_penalty_since)
       /\ duration_since(self.showing_penalty_since[1], t) > PENALTY_SHOW_TIME
    THEN [self EXCEPT !.showing_penalty_since = None]
    ELSE self

\* set_global_flag_value without the return on an unchanged flag
set_global_flag_value_no_equality(self, flag, t, ok) ==
    LET s1 == check_penalty(self, t)
        s2 == [s1 EXCEPT !.global_flag = flag]
        shown == show_based_on_local(s2.local_flag,
                                     is_some(s2.showing_penalty_since),
                                     s2.race_finished)
    IN  IF is_some(flag) THEN s2
        ELSE IF is_some(shown) THEN show(s2, map_from_local(shown[1]), ok)
        ELSE s2

\* set_global_flag_value that shows a flag it sets and, with no return after
\* it, goes on to the local flag
set_global_flag_value_shows_and_goes_on(self, flag, t, ok) ==
    LET s1 == check_penalty(self, t)
        s2 == [s1 EXCEPT !.global_flag = flag]
        s3 == IF is_some(flag)
              THEN show(s2, Some(FlagGlobal(flag[1])), ok) ELSE s2
        shown == show_based_on_local(s2.local_flag,
                                     is_some(s2.showing_penalty_since),
                                     s2.race_finished)
    IN  IF s1.global_flag = flag THEN s1
        ELSE IF is_some(shown) THEN show(s3, map_from_local(shown[1]), ok)
        ELSE s3

\* set_global_flag_value that returns after every assignment, also of None
set_global_flag_value_no_reveal(self, flag, t, ok) ==
    LET s1 == check_penalty(self, t)
    IN  IF s1.global_flag = flag THEN s1
        ELSE [s1 EXCEPT !.global_flag = flag]

\* FlagManager::set_global_flag_value
set_global_flag_value(self, flag, t, ok) ==
    LET s1 == check_penalty(self, t)
        s2 == [s1 EXCEPT !.global_flag = flag]
        shown == show_based_on_local(s2.local_flag,
                                     is_some(s2.showing_penalty_since),
                                     s2.race_finished)
    IN  IF s1.global_flag = flag THEN s1
        ELSE IF is_some(flag) THEN s2
        ELSE IF is_some(shown) THEN show(s2, map_from_local(shown[1]), ok)
        ELSE s2

\* set_local_flag_value that returns on self.local_flag.is_some()
set_local_flag_value_masked_by_local(self, flag, t, ok) ==
    LET s1 == check_penalty(self, t)
        s2 == [s1 EXCEPT !.local_flag = flag]
        shown == show_based_on_local(flag,
                                     is_some(s2.showing_penalty_since),
                                     s2.race_finished)
    IN  IF s1.local_flag = flag THEN s1
        ELSE IF is_some(s2.local_flag) THEN s2
        ELSE IF is_some(shown) THEN show(s2, map_from_local(shown[1]), ok)
        ELSE s2

\* set_local_flag_value that passes false for the penalty
set_local_flag_value_ignores_penalty(self, flag, t, ok) ==
    LET s1 == check_penalty(self, t)
        s2 == [s1 EXCEPT !.local_flag = flag]
        shown == show_based_on_local(flag, FALSE, s2.race_finished)
    IN  IF s1.local_flag = flag THEN s1
        ELSE IF is_some(s2.global_flag) THEN s2
        ELSE IF is_some(shown) THEN show(s2, map_from_local(shown[1]), ok)
        ELSE s2

\* set_local_flag_value without the return on an active global flag
set_local_flag_value_unmasked(self, flag, t, ok) ==
    LET s1 == check_penalty(self, t)
        s2 == [s1 EXCEPT !.local_flag = flag]
        shown == show_based_on_local(flag,
                                     is_some(s2.showing_penalty_since),
                                     s2.race_finished)
    IN  IF s1.local_flag = flag THEN s1
        ELSE IF is_some(shown) THEN show(s2, map_from_local(shown[1]), ok)
        ELSE s2

\* FlagManager::set_local_flag_value
set_local_flag_value(self, flag, t, ok) ==
    LET s1 == check_penalty(self, t)
        s2 == [s1 EXCEPT !.local_flag = flag]
        shown == show_based_on_local(flag,
                                     is_some(s2.showing_penalty_since),
                                     s2.race_finished)
    IN  IF s1.local_flag = flag THEN s1
        ELSE IF is_some(s2.global_flag) THEN s2
        ELSE IF is_some(shown) THEN show(s2, map_from_local(shown[1]), ok)
        ELSE s2

\* FlagManager::set_global_flag
set_global_flag(self, flag, t, ok) == set_global_flag_value(self, Some(flag), t, ok)

\* FlagManager::reset_global_flag
reset_global_flag(self, t, ok) == set_global_flag_value(self, None, t, ok)

\* FlagManager::set_local_flag
set_local_flag(self, flag, t, ok) == set_local_flag_value(self, Some(flag), t, ok)

\* FlagManager::reset_local_flag
reset_local_flag(self, t, ok) == set_local_flag_value(self, None, t, ok)

(* ------------------------------------------------------- the packet loop *)
Call(name, flag, index) == [name |-> name, flag |-> flag, index |-> index]
NoCall == Call("none", "", 0)

\* one turn of the loop of main(): the packet arrives at instant t, the match
\* arm makes the call c on the manager and leaves it as m
Turn(kind, t, c, m) ==
    /\ global_flag' = m.global_flag
    /\ local_flag' = m.local_flag
    /\ race_finished' = m.race_finished
    /\ showing_penalty_since' = m.showing_penalty_since
    /\ driver_numbers' = m.driver_numbers
    /\ now' = t
    /\ panicked' = FALSE
    /\ event' = kind
    /\ call' = c
    /\ after_reset' = (call.name = "reset")
    /\ pre' = Fields(Manager)
    /\ sent' = m.sent
    /\ log' = m.log
    /\ displayed' = IF m.sent = << >> THEN displayed
                    ELSE Some(m.sent[Len(m.sent)])

\* a turn that keeps no (safety_car_type, event_type)
Handled(kind, t, c, m) == Turn(kind, t, c, m) /\ routed' = None

\* unreachable!() / expect(): the process ends, the manager is left as it was
Halt(kind, t) ==
    /\ now' = t
    /\ panicked' = TRUE
    /\ event' = kind
    /\ call' = NoCall
    /\ after_reset' = (call.name = "reset")
    /\ pre' = Fields(Manager)
    /\ sent' = << >>
    /\ log' = << >>
    /\ UNCHANGED << global_flag, local_flag, race_finished,
                    showing_penalty_since, driver_numbers, displayed >>

\* a panic that keeps no (safety_car_type, event_type)
Panic(kind, t) == Halt(kind, t) /\ routed' = None

\* the instants at which the next packet may arrive (recv_from returns)
Arrivals == { t \in Instants : t >= now }

Init ==
    /\ global_flag = new.global_flag
    /\ local_flag = new.local_flag
    /\ race_finished = new.race_finished
    /\ showing_penalty_since = new.showing_penalty_since
    /\ driver_numbers = new.driver_numbers
    /\ now = 0
    /\ panicked = FALSE
    /\ event = "start"
    /\ call = Call("new", "", 0)
    /\ after_reset = FALSE
    /\ pre = Fields(new)
    /\ sent = << >>
    /\ log = << >>
    /\ routed = None
    /\ displayed = None

\* output_socket.send yields a result only in a call that reaches show; m is
\* the manager after the call when the send succeeds
SendResults(m) == IF m.sent = << >> THEN {TRUE} ELSE BOOLEAN

\* deserialise_udp_packet_from_bytes fails
DecodeFailure ==
    /\ ~panicked
    /\ \E t \in Arrivals :
          Handled("undecodable", t, NoCall,
                  [Manager EXCEPT !.log = << "Failed to parse packet" >>])

\* F1Data::ParticipantData
ParticipantData ==
    /\ ~panicked
    /\ \E t \in Arrivals, numbers \in [CarSlots -> RaceNumbers] :
          Handled("ParticipantData", t, NoCall,
                  [Manager EXCEPT !.driver_numbers = numbers])

\* the match without the (_, 3) pattern in its first arm
safety_car_arm_without_phase_3(safety_car_type, event_type) ==
    IF safety_car_type = 0 \/ event_type = 2
    THEN Call("reset_global_flag", "", 0)
    ELSE IF safety_car_type \in {1, 3} /\ event_type \in {0, 1}
    THEN Call("set_global_flag", "Sc", 0)
    ELSE IF safety_car_type = 2 /\ event_type \in {0, 1}
    THEN Call("set_global_flag", "Vsc", 0)
    ELSE Call("unreachable", "", 0)

\* the match on (safety_car_type, event_type): the call of the arm taken,
\* "unreachable" for the last arm
safety_car_arm(safety_car_type, event_type) ==
    IF safety_car_type = 0 \/ event_type = 2 \/ event_type = 3
    THEN Call("reset_global_flag", "", 0)
    ELSE IF safety_car_type \in {1, 3} /\ event_type \in {0, 1}
    THEN Call("set_global_flag", "Sc", 0)
    ELSE IF safety_car_type = 2 /\ event_type \in {0, 1}
    THEN Call("set_global_flag", "Vsc", 0)
    ELSE Call("unreachable", "", 0)

\* the EventType::SafetyCar arm for a packet handled at instant t
SafetyCarPacket(t, safety_car_type, event_type) ==
    LET arm == safety_car_arm(safety_car_type, event_type)
        m(ok) == IF arm.name = "reset_global_flag"
                 THEN reset_global_flag(Manager, t, ok)
                 ELSE set_global_flag(Manager, arm.flag, t, ok)
    IN  IF arm.name = "unreachable"
        THEN Halt("SafetyCar", t)
        ELSE \E ok \in SendResults(m(TRUE)) : Turn("SafetyCar", t, arm, m(ok))

\* EventType::SafetyCar
SafetyCar ==
    /\ ~panicked
    /\ \E t \in Arrivals, safety_car_type \in Codes, event_type \in Codes :
          /\ SafetyCarPacket(t, safety_car_type, event_type)
          /\ routed' = None

\* EventType::SafetyCar, the pair matched on kept in the state
SafetyCarRouted ==
    /\ ~panicked
    /\ \E t \in Arrivals, safety_car_type \in Codes, event_type \in Codes :
          /\ SafetyCarPacket(t, safety_car_type, event_type)
          /\ routed' = Some(<< safety_car_type, event_type >>)

\* EventType::Penalty
Penalty ==
    /\ ~panicked
    /\ \E t \in Arrivals, vehicle_index \in CarSlots :
          LET m(ok) == set_penalty(Manager, vehicle_index, t, ok)
          IN  \E ok \in SendResults(m(TRUE)) :
                 Handled("Penalty", t, Call("set_penalty", "", vehicle_index),
                         m(ok))

\* EventType::ChequeredFlag
ChequeredFlag ==
    /\ ~panicked
    /\ \E t \in Arrivals :
          LET m(ok) == finish(Manager, ok)
          IN  \E ok \in SendResults(m(TRUE)) :
                 Handled("ChequeredFlag", t, Call("finish", "", 0), m(ok))

\* EventType::RedFlag
RedFlag ==
    /\ ~panicked
    /\ \E t \in Arrivals :
          LET m(ok) == set_global_flag(Manager, "Red", t, ok)
          IN  \E ok \in SendResults(m(TRUE)) :
                 Handled("RedFlag", t, Call("set_global_flag", "Red", 0), m(ok))

\* EventType::SessionStart | EventType::SessionEnd
SessionStartEnd ==
    /\ ~panicked
    /\ \E t \in Arrivals :
          Handled("SessionStartEnd", t, Call("reset", "", 0), reset(Manager))

\* F1Data::ClassificationData
ClassificationData ==
    /\ ~panicked
    /\ \E t \in Arrivals :
          Handled("ClassificationData", t, Call("reset", "", 0), reset(Manager))

\* the match on vehicle_fia_flags: the call of the arm taken
fia_arm(fia) ==
    CASE fia = "InvalidUnknown" -> NoCall
      [] fia = "None" -> Call("reset_local_flag", "", 0)
      [] fia \in LocalFlag -> Call("set_local_flag", fia, 0)
      [] fia = "Red" -> Call("set_global_flag", "Red", 0)

\* F1Data::CarStatusData; car_status_data has one entry per car slot, and
\* player_car_index is the first slot or the first index past the last
CarStatusData ==
    /\ ~panicked
    /\ \E t \in Arrivals, driver_index \in {0, MaxCars}, fia \in VehicleFiaFlags :
          LET arm == fia_arm(fia)
              m(ok) ==
                CASE arm.name = "none" ->
                        [Manager EXCEPT
                           !.log = << "Unknown local flag received" >>]
                  [] arm.name = "reset_local_flag" ->
                        reset_local_flag(Manager, t, ok)
                  [] arm.name = "set_local_flag" ->
                        set_local_flag(Manager, arm.flag, t, ok)
                  [] arm.name = "set_global_flag" ->
                        set_global_flag(Manager, arm.flag, t, ok)
          IN  IF driver_index \notin CarSlots
              THEN Panic("CarStatusData", t)
              ELSE \E ok \in SendResults(m(TRUE)) :
                      Handled("CarStatusData", t, arm, m(ok))

\* any other packet or event kind: the `_ => ()` arms
OtherPacket ==
    /\ ~panicked
    /\ \E t \in Arrivals : Handled("other", t, NoCall, Manager)

Next ==
    \/ DecodeFailure
    \/ ParticipantData
    \/ SafetyCar
    \/ Penalty
    \/ ChequeredFlag
    \/ RedFlag
    \/ SessionStartEnd
    \/ ClassificationData
    \/ CarStatusData
    \/ OtherPacket

Spec == Init /\ [][Next]_vars

\* the loop fed the packets that set and clear the flags the safety car arm
\* acts on, each safety car packet keeping the pair it matched on
NextRouter ==
    \/ SafetyCarRouted
    \/ RedFlag
    \/ SessionStartEnd
    \/ CarStatusData

SpecRouter == Init /\ [][NextRouter]_vars

TypeOK ==
    /\ global_flag \in {None} \cup { Some(g) : g \in GlobalFlag }
    /\ local_flag \in {None} \cup { Some(l) : l \in LocalFlag }
    /\ race_finished \in BOOLEAN
    /\ showing_penalty_since \in {None} \cup { Some(t) : t \in Instants }
    /\ driver_numbers \in [CarSlots -> RaceNumbers \cup {0}]
    /\ now \in Instants
    /\ Len(sent) <= 1

(* ================================================================ claims *)
\* the calls by name
SetGlobal(g) == Call("set_global_flag", g, 0)
SetLocal(l) == Call("set_local_flag", l, 0)
ClearGlobal == Call("reset_global_flag", "", 0)
ClearLocal == Call("reset_local_flag", "", 0)

\* C1: set_global_flag(flag), called while global_flag differs from
\* Some(flag), leaves global_flag = Some(flag) and sends exactly the code of
\* that flag (Vsc "5", Sc "4", Red "12") during the call.
C1_SetGlobalEmitsCode ==
    \A g \in GlobalFlag :
        (call = SetGlobal(g) /\ pre.global_flag # Some(g))
            => /\ global_flag = Some(g)
               /\ sent = << (CASE g = "Vsc" -> "5"
                               [] g = "Sc" -> "4"
                               [] g = "Red" -> "12") >>

\* C2: from a state whose global_flag is not Some(X), two consecutive calls
\* set_global_flag(X); set_global_flag(X) send exactly one value together.
C2_RepeatedSetEmitsOnce ==
    [][ \A g \in GlobalFlag :
           (/\ call = SetGlobal(g)
            /\ pre.global_flag # Some(g)
            /\ call' = SetGlobal(g))
               => Len(sent) + Len(sent') = 1 ]_vars

\* C3: while a global flag is active, set_local_flag(f), reset_local_flag()
\* and set_penalty(i) send nothing, and record the local flag / the penalty.
C3_GlobalPriority ==
    is_some(pre.global_flag) =>
        /\ call.name \in {"set_local_flag", "reset_local_flag", "set_penalty"}
              => sent = << >> /\ global_flag = pre.global_flag
        /\ call.name = "set_local_flag" => local_flag = Some(call.flag)
        /\ call.name = "reset_local_flag" => local_flag = None
        /\ call.name = "set_penalty" => showing_penalty_since = Some(now)

\* C3 witness: a Yellow set under an active global flag was recorded unseen
C3_Witness ==
    /\ is_some(pre.global_flag)
    /\ call = SetLocal("Yellow")
    /\ pre.local_flag # Some("Yellow")
    /\ local_flag = Some("Yellow")
    /\ sent = << >>

\* C4: whenever global_flag = Some(g), the last value sent is the code of g.
C4_DisplayedIsGlobalCode ==
    \A g \in GlobalFlag :
        global_flag = Some(g) => displayed = Some(to_enum_str(FlagGlobal(g)))

\* C5: reset_global_flag() with a global flag active sends exactly the code
\* of the local flag held at that moment when it is Yellow ("2") or Blue
\* ("8"), whatever the penalty and the finish state, and "1" when it is
\* Green and the race is not finished.
C5_RevealOnClear ==
    (call = ClearGlobal /\ is_some(pre.global_flag)) =>
        /\ pre.local_flag = Some("Yellow") => sent = << "2" >>
        /\ pre.local_flag = Some("Blue") => sent = << "8" >>
        /\ (pre.local_flag = Some("Green") /\ ~pre.race_finished)
              => sent = << "1" >>
        /\ local_flag = pre.local_flag

\* C5 witness: Yellow revealed from under a global flag, with a penalty
\* active and the race finished
C5_Witness ==
    /\ call = ClearGlobal
    /\ is_some(pre.global_flag)
    /\ pre.local_flag = Some("Yellow")
    /\ is_some(pre.showing_penalty_since)
    /\ pre.race_finished
    /\ sent = << "2" >>

\* C6: reset_global_flag() with a global flag active, no local flag, no
\* penalty and the race not finished sends exactly one value, the empty
\* string.
C6_ClearOverIdle ==
    (/\ call = ClearGlobal
     /\ is_some(pre.global_flag)
     /\ pre.local_flag = None
     /\ pre.showing_penalty_since = None
     /\ ~pre.race_finished)
        => sent = << "" >> /\ global_flag = None

\* C6 witness: the clear value sent on clearing a global flag over an idle
\* manager
C6_Witness ==
    /\ call = ClearGlobal
    /\ is_some(pre.global_flag)
    /\ pre.local_flag = None
    /\ pre.showing_penalty_since = None
    /\ ~pre.race_finished
    /\ sent = << "" >>
    /\ displayed = Some("")

\* C7 as claimed: with a penalty active and no global flag,
\* set_local_flag(Yellow) sends nothing.
C7_PenaltyMasksYellow ==
    (/\ call = SetLocal("Yellow")
     /\ is_some(pre.showing_penalty_since)
     /\ is_none(pre.global_flag))
        => sent = << >>

\* C7 amended: with a penalty active and no global flag,
\* set_local_flag(Yellow) sends "2" unless the local flag was Yellow already
\* (then nothing); what the penalty masks is the clear value:
\* reset_local_flag() sends nothing.
C7_PenaltyOverlay ==
    (is_some(pre.showing_penalty_since) /\ is_none(pre.global_flag)) =>
        /\ call = SetLocal("Yellow")
              => sent = IF pre.local_flag = Some("Yellow")
                        THEN << >> ELSE << "2" >>
        /\ call = ClearLocal => sent = << >>

\* C7 witness: Yellow shown over an active penalty
C7_Witness ==
    /\ call = SetLocal("Yellow")
    /\ is_some(pre.showing_penalty_since)
    /\ is_none(pre.global_flag)
    /\ showing_penalty_since = pre.showing_penalty_since
    /\ sent = << "2" >>

\* C8 as claimed: reset() followed immediately by reset_local_flag() sends
\* the empty string.
C8_ResetThenClearEmitsClear ==
    (after_reset /\ call = ClearLocal) => sent = << "" >>

\* C8 amended: reset() followed immediately by reset_local_flag() sends
\* nothing, the local flag being absent already, and every flag is absent
\* before and after that call.
C8_ResetThenClearIsNoOp ==
    (after_reset /\ call = ClearLocal) =>
        /\ sent = << >>
        /\ pre = Fields(new)
        /\ Fields(Manager) = Fields(new)

\* C8 witness: the no-op reset_local_flag() right after a reset() that
\* followed a finish ("16" still the last value sent)
C8_Witness ==
    /\ after_reset
    /\ call = ClearLocal
    /\ displayed = Some("16")
    /\ sent = << >>

\* C9: the first set/clear of the global or the local flag made more than
\* PENALTY_SHOW_TIME after set_penalty clears the penalty before it decides,
\* so that reset_local_flag() with a local flag set, no global flag and the
\* race not finished then sends the empty string.
C9_PenaltyExpires ==
    (/\ call.name \in {"set_global_flag", "reset_global_flag",
                       "set_local_flag", "reset_local_flag"}
     /\ is_some(pre.showing_penalty_since)
     /\ now > pre.showing_penalty_since[1] + PENALTY_SHOW_TIME)
        => /\ showing_penalty_since = None
           /\ (/\ call = ClearLocal
               /\ is_some(pre.local_flag)
               /\ is_none(pre.global_flag)
               /\ ~pre.race_finished) => sent = << "" >>

\* C10: reset_global_flag() with the race finished, a global flag active and
\* the local flag absent or Green sends nothing.
C10_FinishThenClear ==
    (/\ call = ClearGlobal
     /\ pre.race_finished
     /\ is_some(pre.global_flag)
     /\ pre.local_flag \in {None, Some("Green")})
        => sent = << >> /\ global_flag = None

\* C10 witness: finish(); set_global_flag(Red); reset_global_flag(), the
\* "16" of finish() still the last value sent
C10_Witness ==
    /\ call = ClearGlobal
    /\ pre.race_finished
    /\ pre.global_flag = Some("Red")
    /\ pre.local_flag = None
    /\ displayed = Some("16")
    /\ sent = << >>

\* C11: set_penalty(i) always records a penalty and finish() always sets
\* race_finished; each sends its own code ("11,i", "16") exactly when no
\* global flag is active at the call, and nothing when one is.
C11_OverlayEmission ==
    /\ call.name = "set_penalty" =>
          /\ showing_penalty_since = Some(now)
          /\ sent = IF is_none(pre.global_flag)
                    THEN << "11," \o ToString(call.index) >> ELSE << >>
    /\ call.name = "finish" =>
          /\ race_finished
          /\ sent = IF is_none(pre.global_flag) THEN << "16" >> ELSE << >>

\* C11 witness: finish() under an active global flag set race_finished and
\* sent nothing
C11_Witness ==
    /\ call.name = "finish"
    /\ is_some(pre.global_flag)
    /\ ~pre.race_finished
    /\ race_finished
    /\ sent = << >>

\* C12: reset() sends nothing and leaves global_flag, local_flag and the
\* penalty absent, race_finished false and the roster at its default.
C12_ResetFrame ==
    call.name = "reset" =>
        /\ sent = << >>
        /\ global_flag = None
        /\ local_flag = None
        /\ race_finished = FALSE
        /\ showing_penalty_since = None
        /\ driver_numbers = DefaultNumbers

\* C12 witness: a reset() of a manager that held a global flag, a local
\* flag, a penalty and the finish, with a value on display
C12_Witness ==
    /\ call.name = "reset"
    /\ is_some(pre.global_flag)
    /\ is_some(pre.local_flag)
    /\ is_some(pre.showing_penalty_since)
    /\ pre.race_finished
    /\ is_some(displayed)
    /\ Fields(Manager) = Fields(new)

\* C13: once race_finished is true it stays true across every call other
\* than reset(), and no such call sends the Green code "1".
C13_FinishPersists ==
    (pre.race_finished /\ call.name # "reset") =>
        /\ race_finished
        /\ sent # << "1" >>

\* C13 witness: Green set after the finish, with no global flag, sent nothing
C13_Witness ==
    /\ pre.race_finished
    /\ is_none(pre.global_flag)
    /\ call = SetLocal("Green")
    /\ pre.local_flag # Some("Green")
    /\ local_flag = Some("Green")
    /\ race_finished
    /\ sent = << >>

\* the decision table of the reconciliation rule, as the values sent
RuleTable(flag, penalty, finished) ==
    IF flag = None /\ ~penalty /\ ~finished THEN << "" >>
    ELSE IF flag = Some("Green") /\ ~finished THEN << "1" >>
    ELSE IF flag = Some("Yellow") THEN << "2" >>
    ELSE IF flag = Some("Blue") THEN << "8" >>
    ELSE << >>

\* C14: for every local flag (absent, Green, Yellow, Blue), penalty state and
\* finish state, a changing set_local_flag / reset_local_flag with no global
\* flag active, and a reset_global_flag() of an active global flag, send what
\* the rule table gives for the local flag and the current penalty and finish
\* state: clear iff (absent, no penalty, not finished), Green iff (Green, not
\* finished), the flag iff Yellow or Blue, nothing otherwise.
C14_RuleTable ==
    /\ (/\ call.name \in {"set_local_flag", "reset_local_flag"}
        /\ is_none(pre.global_flag)
        /\ local_flag # pre.local_flag)
          => sent = RuleTable(local_flag, is_some(showing_penalty_since),
                              race_finished)
    /\ (call = ClearGlobal /\ is_some(pre.global_flag))
          => sent = RuleTable(local_flag, is_some(showing_penalty_since),
                              race_finished)

\* C14 witness: the local flag cleared under a penalty, no global flag, the
\* race not finished: nothing sent
C14_Witness ==
    /\ call = ClearLocal
    /\ is_none(pre.global_flag)
    /\ is_some(pre.local_flag)
    /\ is_some(showing_penalty_since)
    /\ ~race_finished
    /\ local_flag = None
    /\ sent = << >>

\* C15: set_global_flag(f) with global_flag = Some(f) already,
\* reset_global_flag() with it absent, set_local_flag(f) with local_flag =
\* Some(f) already and reset_local_flag() with it absent send nothing and
\* leave global_flag, local_flag and race_finished as they were.
C15_NoOpSetters ==
    (\/ call.name = "set_global_flag" /\ pre.global_flag = Some(call.flag)
     \/ call = ClearGlobal /\ pre.global_flag = None
     \/ call.name = "set_local_flag" /\ pre.local_flag = Some(call.flag)
     \/ call = ClearLocal /\ pre.local_flag = None)
        => /\ sent = << >>
           /\ global_flag = pre.global_flag
           /\ local_flag = pre.local_flag
           /\ race_finished = pre.race_finished

\* C15 witness: reset_global_flag() with no global flag over a Yellow local
\* flag sent nothing
C15_Witness ==
    /\ call = ClearGlobal
    /\ pre.global_flag = None
    /\ pre.local_flag = Some("Yellow")
    /\ displayed = Some("2")
    /\ sent = << >>

\* C16: no call on the manager sends two or more values.
C16_AtMostOneEmission ==
    Len(sent) <= 1

\* C16 witness: reset_global_flag() revealing Blue sent one value
C16_Witness ==
    /\ call = ClearGlobal
    /\ pre.global_flag = Some("Sc")
    /\ pre.local_flag = Some("Blue")
    /\ Len(sent) = 1

\* two managers with the same fields, having sent the same
SameOutcome(a, b) ==
    /\ Fields(a) = Fields(b)
    /\ a.driver_numbers = b.driver_numbers
    /\ a.sent = b.sent

\* C18: in every reachable state every call leaves the same manager whether
\* its send succeeds or fails, and a failed send does not end the loop.
C18_SendFailureKeepsState ==
    /\ \A g \in GlobalFlag :
          SameOutcome(set_global_flag(Manager, g, now, TRUE),
                      set_global_flag(Manager, g, now, FALSE))
    /\ \A l \in LocalFlag :
          SameOutcome(set_local_flag(Manager, l, now, TRUE),
                      set_local_flag(Manager, l, now, FALSE))
    /\ SameOutcome(reset_global_flag(Manager, now, TRUE),
                   reset_global_flag(Manager, now, FALSE))
    /\ SameOutcome(reset_local_flag(Manager, now, TRUE),
                   reset_local_flag(Manager, now, FALSE))
    /\ \A i \in CarSlots :
          SameOutcome(set_penalty(Manager, i, now, TRUE),
                      set_penalty(Manager, i, now, FALSE))
    /\ SameOutcome(finish(Manager, TRUE), finish(Manager, FALSE))
    /\ log = << "Failed to send show command" >>
          => ~panicked /\ Len(sent) = 1 /\ Arrivals # {}

\* C18 witness: a finish() whose send failed set race_finished all the same
C18_Witness ==
    /\ call.name = "finish"
    /\ log = << "Failed to send show command" >>
    /\ sent = << "16" >>
    /\ ~pre.race_finished
    /\ race_finished
    /\ ~panicked

\* C19: as coded, a penalty once recorded stays active whatever time has
\* passed: every call other than reset() leaves showing_penalty_since
\* present and does not send the empty string.
C19_PenaltyNeverLapses ==
    (is_some(pre.showing_penalty_since) /\ call.name # "reset") =>
        /\ is_some(showing_penalty_since)
        /\ sent # << "" >>

\* C19 witness: the local flag cleared more than PENALTY_SHOW_TIME after the
\* penalty, no global flag, the race not finished: penalty kept, nothing sent
C19_Witness ==
    /\ call = ClearLocal
    /\ is_some(pre.showing_penalty_since)
    /\ now > pre.showing_penalty_since[1] + PENALTY_SHOW_TIME
    /\ is_some(pre.local_flag)
    /\ is_none(pre.global_flag)
    /\ ~pre.race_finished
    /\ showing_penalty_since = pre.showing_penalty_since
    /\ sent = << >>

\* C20: with global_flag = Red, a vehicle status packet (none, green,
\* yellow, blue, unknown or red again) sends nothing, leaves global_flag Red
\* and changes at most local_flag, to what it reports; global_flag leaves
\* Red only by reset_global_flag(), set_global_flag of another flag or
\* reset().
C20_StickyRed ==
    pre.global_flag = Some("Red") =>
        /\ (event = "CarStatusData" /\ ~panicked) =>
              /\ sent = << >>
              /\ global_flag = Some("Red")
              /\ race_finished = pre.race_finished
              /\ showing_penalty_since = pre.showing_penalty_since
              /\ call.name = "set_local_flag" => local_flag = Some(call.flag)
              /\ call.name = "reset_local_flag" => local_flag = None
              /\ call.name \in {"none", "set_global_flag"}
                    => local_flag = pre.local_flag
        /\ global_flag # Some("Red") =>
              call \in {ClearGlobal, SetGlobal("Sc"), SetGlobal("Vsc"),
                        Call("reset", "", 0)}

\* C20 witness: a vehicle status packet reporting none under Red cleared the
\* local flag unseen
C20_Witness ==
    /\ pre.global_flag = Some("Red")
    /\ event = "CarStatusData"
    /\ call = ClearLocal
    /\ is_some(pre.local_flag)
    /\ local_flag = None
    /\ global_flag = Some("Red")
    /\ sent = << >>

\* C17: for every (safety_car_type, event_type) in 0..3 x 0..3 the safety car
\* arm makes exactly one call and does not reach unreachable!(); it calls
\* reset_global_flag() exactly when the type is 0 or the event is 2 or 3,
\* set_global_flag(Vsc) exactly when the type is 2 and the event 0 or 1,
\* set_global_flag(Sc) exactly when the type is 1 or 3 and the event 0 or 1;
\* unreachable!() is reached only for pairs outside 0..3 x 0..3.
C17_SafetyCarRouting ==
    is_some(routed) =>
        LET mode == routed[1][1]
            phase == routed[1][2]
            InDomain == mode \in 0 .. 3 /\ phase \in 0 .. 3
        IN  /\ InDomain => ~panicked
            /\ InDomain => call \in {ClearGlobal, SetGlobal("Vsc"), SetGlobal("Sc")}
            /\ call = ClearGlobal <=> (mode = 0 \/ phase \in {2, 3})
            /\ call = SetGlobal("Vsc") <=> (mode = 2 /\ phase \in {0, 1})
            /\ call = SetGlobal("Sc") <=> (mode \in {1, 3} /\ phase \in {0, 1})
            /\ panicked => ~InDomain

\* C17 witness: the pair (3, 1) set the Sc flag over a Red one
C17_Witness ==
    /\ routed = Some(<< 3, 1 >>)
    /\ call = SetGlobal("Sc")
    /\ pre.global_flag = Some("Red")
    /\ global_flag = Some("Sc")
    /\ ~panicked
====
